---- MODULE Spec2Model ----
(***************************************************************************)
(* Surface Dice (Normalized Surface Distance) metric of                    *)
(* monai/metrics/surface_dice.py: the function compute_surface_dice and    *)
(* the cumulative metric SurfaceDiceMetric.                                *)
(*                                                                         *)
(* Numbers.  A tensor element is an integer count of halves (Whole(1) is   *)
(* the element 1, the odd counts are the non-integers x.5), so that the    *)
(* uint8 conversion of line 226 has something to truncate.  A threshold is *)
(* a float record [k, v]: finite v, +-infinity or NaN.  A surface distance *)
(* is kept as its exact square (d >= 0, so d <= tau iff d^2 <= tau^2 for   *)
(* tau >= 0).  An NSD entry is NaN or the exact fraction correct/complete  *)
(* in lowest terms: the float division of two small integers is injective  *)
(* and monotone on these fractions, so equality and order are preserved.   *)
(***************************************************************************)
EXTENDS Integers, Sequences, FiniteSets, TLC

(* ------------------------------ bounds -------------------------------- *)
\* image height and width of the inputs of the compute process
H == 3
W == 3
\* thresholds are drawn from 0..MaxTau
MaxTau == 2
\* largest batch of one update call, and largest number of buffered rows
MaxBatch == 2
MaxRows == 3
\* largest number of entries of the buffer
MaxEntries == 3

(* ------------------------------ numbers ------------------------------- *)
Abs(x) == IF x < 0 THEN -x ELSE x
Max2(a, b) == IF a >= b THEN a ELSE b
SetMin(S) == CHOOSE x \in S : \A y \in S : x <= y

RECURSIVE Gcd(_, _)
Gcd(a, b) == IF b = 0 THEN a ELSE Gcd(b, a % b)

Fin(n) == [k |-> "fin", v |-> n]
PosInf == [k |-> "inf", v |-> 1]
NegInf == [k |-> "inf", v |-> -1]
NaNf == [k |-> "nan", v |-> 0]

\* an NSD entry: NaN, or the fraction n/d in lowest terms
NaN == [k |-> "nan", n |-> 0, d |-> 1]
Ratio(n, d) == [k |-> "num", n |-> n \div Gcd(n, d), d |-> d \div Gcd(n, d)]
RatLeq(x, y) == x.n * y.d <= y.n * x.d

\* tensor elements, in halves
Whole(n) == 2 * n
IsWhole(e) == e % 2 = 0
\* the integer part of an element, rounded toward zero
Trunc(e) == IF e >= 0 THEN e \div 2 ELSE -((-e) \div 2)

(* ------------------------------ tensors ------------------------------- *)
\* [type, dtype, shape, data]: data is nested sequences, one level per axis
RECURSIVE ElemsAt(_, _)
ElemsAt(x, depth) ==
  IF depth = 0 THEN {x}
  ELSE UNION {ElemsAt(x[i], depth - 1) : i \in DOMAIN x}

Elems(t) == ElemsAt(t.data, Len(t.shape))

RECURSIVE Fill(_, _)
Fill(shape, e) ==
  IF shape = <<>> THEN e
  ELSE [i \in 1..Head(shape) |-> Fill(Tail(shape), e)]

\* nested data with its last element overwritten by e
RECURSIVE PokeLast(_, _, _)
PokeLast(x, depth, e) ==
  IF depth = 0 THEN e
  ELSE [i \in DOMAIN x |->
          IF i = Len(x) THEN PokeLast(x[i], depth - 1, e) ELSE x[i]]

\* the [B,C,h,w] integer tensor whose (b,c) mask is the pixel set fg[b][c]
MaskTensor(fg, h, w) ==
  [type |-> "Tensor", dtype |-> "int64",
   shape |-> <<Len(fg), Len(fg[1]), h, w>>,
   data |-> [b \in 1..Len(fg) |-> [c \in 1..Len(fg[1]) |->
              [i \in 1..h |-> [j \in 1..w |->
                 IF <<i, j>> \in fg[b][c] THEN Whole(1) ELSE Whole(0)]]]]]

\* y[b, c] as the set of its pixels equal to 1
Foreground(t, b, c) ==
  {p \in (1..t.shape[3]) \X (1..t.shape[4]) : t.data[b][c][p[1]][p[2]] = Whole(1)}

(* ------------------- collaborators (monai.metrics.utils) --------------- *)
\* ignore_background: drops class-axis index 0 of both tensors
DropFirstChannel(t) ==
  [t EXCEPT !.shape = [@ EXCEPT ![2] = @ - 1],
            !.data = [b \in DOMAIN @ |-> Tail(@[b])]]

ignore_background(y_pred, y) == <<DropFirstChannel(y_pred), DropFirstChannel(y)>>

\* prepare_spacing: one spacing vector per batch item, or a failure.
\* spec is [k, s, q, qq]: absent, a number s, a sequence q, a sequence of sequences qq
NoSpacing == [k |-> "none", s |-> 1, q |-> <<>>, qq |-> <<>>]
ScalarSpacing(s) == [k |-> "scalar", s |-> s, q |-> <<>>, qq |-> <<>>]
SeqSpacing(q) == [k |-> "seq", s |-> 1, q |-> q, qq |-> <<>>]
SeqSeqSpacing(qq) == [k |-> "seqseq", s |-> 1, q |-> <<>>, qq |-> qq]

Isotropic(s, img_dim) == [a \in 1..img_dim |-> s]

prepare_spacing(spacing, batch_size, img_dim) ==
  CASE spacing.k = "none" ->
         [ok |-> TRUE, list |-> [b \in 1..batch_size |-> Isotropic(1, img_dim)]]
    [] spacing.k = "scalar" ->
         [ok |-> TRUE, list |-> [b \in 1..batch_size |-> Isotropic(spacing.s, img_dim)]]
    [] spacing.k = "seq" ->
         IF Len(spacing.q) = img_dim
         THEN [ok |-> TRUE, list |-> [b \in 1..batch_size |-> spacing.q]]
         ELSE [ok |-> FALSE, list |-> <<>>]
    [] OTHER ->
         IF /\ Len(spacing.qq) = batch_size
            /\ \A b \in 1..batch_size : Len(spacing.qq[b]) \in {1, img_dim}
         THEN [ok |-> TRUE,
               list |-> [b \in 1..batch_size |->
                           IF Len(spacing.qq[b]) = 1
                           THEN Isotropic(spacing.qq[b][1], img_dim)
                           ELSE spacing.qq[b]]]
         ELSE [ok |-> FALSE, list |-> <<>>]

\* get_mask_edges(crop=False): the pixels of a mask with a 4-neighbour that is
\* background; what lies outside the image is background
Neighbours(p) ==
  {<<p[1] - 1, p[2]>>, <<p[1] + 1, p[2]>>, <<p[1], p[2] - 1>>, <<p[1], p[2] + 1>>}

Edges(mask) == {p \in mask : ~(Neighbours(p) \subseteq mask)}

get_mask_edges(mask_pred, mask_gt) == <<Edges(mask_pred), Edges(mask_gt)>>

\* the square of the distance between two pixels under a metric; only the
\* euclidean metric reads the spacing
DistSq(p, q, distance_metric, spacing) ==
  LET dr == Abs(p[1] - q[1])
      dc == Abs(p[2] - q[2])
  IN CASE distance_metric = "euclidean" ->
            (dr * spacing[1]) * (dr * spacing[1]) + (dc * spacing[2]) * (dc * spacing[2])
       [] distance_metric = "chessboard" -> Max2(dr, dc) * Max2(dr, dc)
       [] OTHER -> (dr + dc) * (dr + dc)

\* get_surface_distance: for every pixel of the source boundary its distance to
\* the nearest pixel of the target boundary, infinite when the target is empty
get_surface_distance(edges_src, edges_tgt, distance_metric, spacing) ==
  [p \in edges_src |->
     IF edges_tgt = {} THEN PosInf
     ELSE Fin(SetMin({DistSq(p, q, distance_metric, spacing) : q \in edges_tgt}))]

(* ------------------- compute_surface_dice: validation ------------------ *)
ByteMod == 256

\* Tensor.byte() of one element.  An integer tensor wraps; a float tensor
\* truncates toward zero, and the conversion of a value outside 0..255 is
\* undefined in C: ub names what the build does with it (wrap or saturate)
Byte(e, dtype, ub) ==
  LET t == Trunc(e)
  IN IF dtype = "int64" \/ (0 <= t /\ t < ByteMod) \/ ub = "wrap"
     THEN t % ByteMod
     ELSE IF t < 0 THEN 0 ELSE ByteMod - 1

\* torch.all(t.byte() == t)
ByteRoundTripsTrunc(t, ub) == \A e \in Elems(t) : IsWhole(e)
ByteRoundTrips(t, ub) == \A e \in Elems(t) : Whole(Byte(e, t.dtype, ub)) = e

\* torch.any(t > 1)
AnyAboveOne(t) == \E e \in Elems(t) : e > Whole(1)

isfinite(x) == x.k = "fin"
Negative(x) == x.k # "nan" /\ x.v < 0

\* the tensors the checks read: lines 212-213
Filtered(inp) ==
  IF ~inp.include_background THEN ignore_background(inp.y_pred, inp.y)
  ELSE <<inp.y_pred, inp.y>>

\* lines 215-245: the first check that fails, in the order of the code
ValidateSwapped(inp, ub) ==
  LET y_pred == Filtered(inp)[1]
      y == Filtered(inp)[2]
  IN IF y_pred.type # "Tensor" \/ y.type # "Tensor" THEN "InvalidInputType"
     ELSE IF Len(y_pred.shape) # 4 \/ Len(y.shape) # 4 THEN "InvalidRank"
     ELSE IF y_pred.shape # y.shape THEN "ShapeMismatch"
     ELSE IF AnyAboveOne(y_pred) \/ AnyAboveOne(y) THEN "NotOneHot"
     ELSE IF ~ByteRoundTrips(y_pred, ub) \/ ~ByteRoundTrips(y, ub) THEN "NotBinarized"
     ELSE IF y_pred.shape[2] # Len(inp.class_thresholds) THEN "ThresholdCountMismatch"
     ELSE IF \E i \in DOMAIN inp.class_thresholds : Negative(inp.class_thresholds[i])
          THEN "NegativeThreshold"
     ELSE IF \E i \in DOMAIN inp.class_thresholds : ~isfinite(inp.class_thresholds[i])
          THEN "NonFiniteThreshold"
     ELSE "none"

Validate(inp, ub) ==
  LET y_pred == Filtered(inp)[1]
      y == Filtered(inp)[2]
  IN IF y_pred.type # "Tensor" \/ y.type # "Tensor" THEN "InvalidInputType"
     ELSE IF Len(y_pred.shape) # 4 \/ Len(y.shape) # 4 THEN "InvalidRank"
     ELSE IF y_pred.shape # y.shape THEN "ShapeMismatch"
     ELSE IF ~ByteRoundTrips(y_pred, ub) \/ ~ByteRoundTrips(y, ub) THEN "NotBinarized"
     ELSE IF AnyAboveOne(y_pred) \/ AnyAboveOne(y) THEN "NotOneHot"
     ELSE IF y_pred.shape[2] # Len(inp.class_thresholds) THEN "ThresholdCountMismatch"
     ELSE IF \E i \in DOMAIN inp.class_thresholds : ~isfinite(inp.class_thresholds[i])
          THEN "NonFiniteThreshold"
     ELSE IF \E i \in DOMAIN inp.class_thresholds : Negative(inp.class_thresholds[i])
          THEN "NegativeThreshold"
     ELSE "none"

(* ------------------- compute_surface_dice: one (b, c) pair ------------- *)
\* d <= tau for a distance kept as its square and a finite tau >= 0
WithinExact(d, tau) == d.k = "fin" /\ d.v = tau.v * tau.v
WithinStrict(d, tau) == d.k = "fin" /\ d.v < tau.v * tau.v
WithinReversed(d, tau) == d.k = "inf" \/ d.v >= tau.v * tau.v
Within(d, tau) == d.k = "fin" /\ d.v <= tau.v * tau.v

\* np.sum(distances <= threshold)
CountWithin(distances, tau) ==
  Cardinality({p \in DOMAIN distances : Within(distances[p], tau)})

\* line 266
boundary_complete(distances_pred_gt, distances_gt_pred) ==
  Cardinality(DOMAIN distances_pred_gt) + Cardinality(DOMAIN distances_gt_pred)

\* lines 267-269
boundary_correct(distances_pred_gt, distances_gt_pred, tau) ==
  CountWithin(distances_pred_gt, tau) + CountWithin(distances_gt_pred, tau)

\* lines 271-275
nsd_entryNoNaN(distances_pred_gt, distances_gt_pred, tau) ==
  IF boundary_correct(distances_pred_gt, distances_gt_pred, tau) = 0
  THEN NaN
  ELSE Ratio(boundary_correct(distances_pred_gt, distances_gt_pred, tau),
             boundary_complete(distances_pred_gt, distances_gt_pred))

nsd_entry(distances_pred_gt, distances_gt_pred, tau) ==
  IF boundary_complete(distances_pred_gt, distances_gt_pred) = 0
  THEN NaN
  ELSE Ratio(boundary_correct(distances_pred_gt, distances_gt_pred, tau),
             boundary_complete(distances_pred_gt, distances_gt_pred))

\* lines 253-275 for the pair (b, c) of the validated tensors
PairEdges(y_pred, y, b, c) ==
  get_mask_edges(Foreground(y_pred, b, c), Foreground(y, b, c))

PairNSD(y_pred, y, b, c, class_thresholds, distance_metric, spacing_list) ==
  LET e == PairEdges(y_pred, y, b, c)
      distances_pred_gt == get_surface_distance(e[1], e[2], distance_metric, spacing_list[b])
      distances_gt_pred == get_surface_distance(e[2], e[1], distance_metric, spacing_list[b])
  IN nsd_entry(distances_pred_gt, distances_gt_pred, class_thresholds[c])

\* lines 254-257: the diagnostics of the pair, the reference's first
PairWarnings(y_pred, y, b, c) ==
  LET e == PairEdges(y_pred, y, b, c)
  IN (IF e[2] = {} THEN <<[who |-> "gt", class |-> c]>> ELSE <<>>)
     \o (IF e[1] = {} THEN <<[who |-> "pred", class |-> c]>> ELSE <<>>)

\* lines 212-277 as one function of the inputs: the failure, or the [B,C]
\* result with the diagnostics in the order they are emitted
Failure(e) == [err |-> e, val |-> <<>>, warns |-> <<>>]

RECURSIVE Flatten(_)
Flatten(ss) == IF ss = <<>> THEN <<>> ELSE Head(ss) \o Flatten(Tail(ss))

ComputeError(inp, ub) ==
  LET e == Validate(inp, ub)
      y_pred == Filtered(inp)[1]
  IN IF e # "none" THEN e
     ELSE IF ~prepare_spacing(inp.spacing, y_pred.shape[1], Len(y_pred.shape) - 2).ok
          THEN "InvalidSpacingSpec"
     ELSE "none"

compute_surface_diceFirstSpacing(inp, ub) ==
  LET y_pred == Filtered(inp)[1]
      y == Filtered(inp)[2]
      batch_size == y_pred.shape[1]
      n_class == y_pred.shape[2]
      sp == prepare_spacing(inp.spacing, batch_size, Len(y_pred.shape) - 2)
  IN IF ComputeError(inp, ub) # "none" THEN Failure(ComputeError(inp, ub))
     ELSE [err |-> "none",
           val |-> [b \in 1..batch_size |-> [c \in 1..n_class |->
                     PairNSD(y_pred, y, b, c, inp.class_thresholds,
                             inp.distance_metric,
                             [i \in 1..batch_size |-> sp.list[1]])]],
           warns |-> Flatten([i \in 1..(batch_size * n_class) |->
                       PairWarnings(y_pred, y, ((i - 1) \div n_class) + 1,
                                    ((i - 1) % n_class) + 1)])]

compute_surface_dice(inp, ub) ==
  LET y_pred == Filtered(inp)[1]
      y == Filtered(inp)[2]
      batch_size == y_pred.shape[1]
      n_class == y_pred.shape[2]
      sp == prepare_spacing(inp.spacing, batch_size, Len(y_pred.shape) - 2)
  IN IF ComputeError(inp, ub) # "none" THEN Failure(ComputeError(inp, ub))
     ELSE [err |-> "none",
           val |-> [b \in 1..batch_size |-> [c \in 1..n_class |->
                     PairNSD(y_pred, y, b, c, inp.class_thresholds,
                             inp.distance_metric, sp.list)]],
           warns |-> Flatten([i \in 1..(batch_size * n_class) |->
                       PairWarnings(y_pred, y, ((i - 1) \div n_class) + 1,
                                    ((i - 1) % n_class) + 1)])]

(* ------------------------------- state --------------------------------- *)
VARIABLES
  \* one call of compute_surface_dice, step by step
  inp,           \* the arguments of the call
  ub,            \* what the build does with an out-of-range float-to-uint8 cast
  pc,            \* "start", "validated", "loop", "returned", "failed"
  t_pred, t_ref, \* y_pred and y after lines 212-232
  spacing_list,  \* line 250
  nsd,           \* line 247: the array being filled
  done,          \* number of (b, c) pairs processed, in np.ndindex order
  warnings,      \* the diagnostics emitted so far
  out,           \* what the call returned or raised
  \* one SurfaceDiceMetric instance
  cfg,           \* the attributes set by __init__
  buffer,        \* the accumulation buffer: the entries appended so far
  ret,           \* the last call on the instance and what it returned or raised
  fed            \* the successful update calls since the last reset

computeVars == <<inp, ub, pc, t_pred, t_ref, spacing_list, nsd, done, warnings, out>>
metricVars == <<cfg, buffer, ret, fed>>
vars == <<inp, ub, pc, t_pred, t_ref, spacing_list, nsd, done, warnings, out,
          cfg, buffer, ret, fed>>

NoTensor == [type |-> "Tensor", dtype |-> "int64", shape |-> <<>>, data |-> 0]
Uninit == [k |-> "uninit", n |-> 0, d |-> 1]

Input(y_pred, y, class_thresholds, include_background, distance_metric, spacing) ==
  [y_pred |-> y_pred, y |-> y, class_thresholds |-> class_thresholds,
   include_background |-> include_background,
   distance_metric |-> distance_metric, spacing |-> spacing]

(* --------------- compute_surface_dice as a process ---------------------- *)
\* lines 212-245: background filtering and every check
ValidateStep ==
  /\ pc = "start"
  /\ LET e == Validate(inp, ub)
     IN IF e # "none"
        THEN /\ pc' = "failed"
             /\ out' = Failure(e)
             /\ UNCHANGED <<t_pred, t_ref>>
        ELSE /\ pc' = "validated"
             /\ t_pred' = Filtered(inp)[1]
             /\ t_ref' = Filtered(inp)[2]
             /\ out' = out
  /\ UNCHANGED <<inp, ub, spacing_list, nsd, done, warnings>>
  /\ UNCHANGED metricVars

\* lines 247-250: np.empty and prepare_spacing
PrepareStep ==
  /\ pc = "validated"
  /\ LET sp == prepare_spacing(inp.spacing, t_pred.shape[1], Len(t_pred.shape) - 2)
     IN IF ~sp.ok
        THEN /\ pc' = "failed"
             /\ out' = Failure("InvalidSpacingSpec")
             /\ UNCHANGED <<spacing_list, nsd>>
        ELSE /\ pc' = "loop"
             /\ spacing_list' = sp.list
             /\ nsd' = [b \in 1..t_pred.shape[1] |-> [c \in 1..t_pred.shape[2] |-> Uninit]]
             /\ out' = out
  /\ UNCHANGED <<inp, ub, t_pred, t_ref, done, warnings>>
  /\ UNCHANGED metricVars

\* lines 252-275: the next (b, c) of np.ndindex(batch_size, n_class)
PairStep ==
  /\ pc = "loop"
  /\ done < t_pred.shape[1] * t_pred.shape[2]
  /\ LET b == (done \div t_pred.shape[2]) + 1
         c == (done % t_pred.shape[2]) + 1
     IN /\ warnings' = warnings \o PairWarnings(t_pred, t_ref, b, c)
        /\ nsd' = [nsd EXCEPT ![b][c] =
                     PairNSD(t_pred, t_ref, b, c, inp.class_thresholds,
                             inp.distance_metric, spacing_list)]
  /\ done' = done + 1
  /\ UNCHANGED <<inp, ub, pc, t_pred, t_ref, spacing_list, out>>
  /\ UNCHANGED metricVars

\* line 277
ReturnStep ==
  /\ pc = "loop"
  /\ done = t_pred.shape[1] * t_pred.shape[2]
  /\ pc' = "returned"
  /\ out' = [err |-> "none", val |-> nsd, warns |-> warnings]
  /\ UNCHANGED <<inp, ub, t_pred, t_ref, spacing_list, nsd, done, warnings>>
  /\ UNCHANGED metricVars

NextCompute == ValidateStep \/ PrepareStep \/ PairStep \/ ReturnStep

(* ------------------- the inputs of the compute process ------------------ *)
Pixels == (1..H) \X (1..W)

Rect(r1, r2, c1, c2) ==
  {p \in Pixels : r1 <= p[1] /\ p[1] <= r2 /\ c1 <= p[2] /\ p[2] <= c2}

\* the empty mask and every rectangle
RectMasks ==
  {{}} \cup {Rect(r1, r2, c1, c2) : r1 \in 1..H, r2 \in 1..H, c1 \in 1..W, c2 \in 1..W}

\* every mask of one or two pixels, adjacent or not
DotMasks == {{p, q} : p \in Pixels, q \in Pixels}

PredMasks == RectMasks \cup DotMasks
RefMasks == RectMasks

\* the masks of the j-th (sample, class) slot of a tensor built from one
\* predicted mask pm and one reference mask gm: the pair itself in the first
\* slot, their common part twice in the others
SlotMasks(pm, gm, j) ==
  IF j = 0 THEN <<pm, gm>> ELSE <<pm \cap gm, pm \cap gm>>

\* the input tensors [B, C(+1), H, W]; without include_background channel 0
\* is the background of the first class
MaskTensors(pm, gm, B, C, include_background) ==
  LET slot(b, c) == SlotMasks(pm, gm, (b - 1) * C + (c - 1))
      chan(b, side) == [c \in 1..C |-> slot(b, c)[side]]
      all(b, side) == IF include_background THEN chan(b, side)
                      ELSE <<Pixels \ slot(b, 1)[side]>> \o chan(b, side)
  IN <<MaskTensor([b \in 1..B |-> all(b, 1)], H, W),
       MaskTensor([b \in 1..B |-> all(b, 2)], H, W)>>

Taus == {Fin(t) : t \in 0..MaxTau}

\* metric and spacing together: only the euclidean metric reads the spacing
MetricSpacings ==
  {<<"chessboard", NoSpacing>>, <<"taxicab", NoSpacing>>,
   <<"euclidean", NoSpacing>>, <<"euclidean", SeqSpacing(<<1, 2>>)>>}

MaskInput(pm, gm, B, C, class_thresholds, include_background, ms) ==
  LET t == MaskTensors(pm, gm, B, C, include_background)
  IN Input(t[1], t[2], class_thresholds, include_background, ms[1], ms[2])

\* the inputs of the compute process: one class, one class behind a
\* background channel, two classes, two samples
ComputeInput(x) ==
  \E pm \in PredMasks, gm \in RefMasks :
    \/ \E t \in Taus, ms \in MetricSpacings :
         x = MaskInput(pm, gm, 1, 1, <<t>>, TRUE, ms)
    \/ \E t \in Taus :
         x = MaskInput(pm, gm, 1, 1, <<t>>, FALSE, <<"euclidean", NoSpacing>>)
    \/ \E t1 \in Taus, t2 \in Taus :
         x = MaskInput(pm, gm, 1, 2, <<t1, t2>>, TRUE, <<"euclidean", NoSpacing>>)
    \/ \E t \in Taus, sp \in {ScalarSpacing(2), SeqSeqSpacing(<<<<1, 2>>, <<2>>>>)} :
         x = MaskInput(pm, gm, 2, 1, <<t>>, TRUE, <<"euclidean", sp>>)

InitMetricIdle ==
  /\ cfg = [class_thresholds |-> <<>>, include_background |-> FALSE,
            distance_metric |-> "euclidean", reduction |-> "mean",
            get_not_nans |-> FALSE]
  /\ buffer = <<>>
  /\ ret = [op |-> "init", err |-> "none", val |-> <<>>, mode |-> "none",
            cleared |-> 0]
  /\ fed = <<>>

InitComputeIdle ==
  /\ pc = "start"
  /\ t_pred = NoTensor
  /\ t_ref = NoTensor
  /\ spacing_list = <<>>
  /\ nsd = <<>>
  /\ done = 0
  /\ warnings = <<>>
  /\ out = Failure("pending")

InitCompute ==
  /\ ComputeInput(inp)
  /\ ub = "wrap"
  /\ InitComputeIdle
  /\ InitMetricIdle

SpecCompute == InitCompute /\ [][NextCompute]_vars

(* ------------------- malformed inputs of the compute process ------------ *)
\* a tensor of zeros of a given type, element type and shape whose last element
\* is e
Zeros(type, dtype, shape, e) ==
  [type |-> type, dtype |-> dtype, shape |-> shape,
   data |-> PokeLast(Fill(shape, Whole(0)), Len(shape), e)]

\* element type and last element: 0, 1, then what the checks of lines 226-229
\* are about: non-integers, negatives, values above 1 and around 2^8
LastElems ==
  {<<"int64", Whole(v)>> : v \in {0, 1, 2, -1, ByteMod - 1, ByteMod, ByteMod + 1}}
  \cup {<<"float32", e>> :
          e \in {Whole(1), Whole(0) + 1, Whole(1) + 1, Whole(2), -1, Whole(-1),
                 Whole(ByteMod), Whole(ByteMod) + 1}}

\* shapes of rank 4, 3 and 5 with n channels; the images are 1 x 2
PredShapes(n) == {<<1, n, 1, 2>>, <<n, 1, 2>>, <<1, n, 1, 2, 1>>}
RefShapes(n) == {<<1, n, 1, 2>>, <<2, n, 1, 2>>, <<n, 1, 2>>}

RefLastElems ==
  {<<"int64", Whole(0)>>, <<"int64", Whole(1)>>, <<"int64", Whole(2)>>,
   <<"float32", Whole(0) + 1>>, <<"int64", Whole(ByteMod)>>}

\* threshold lists for two classes: valid, of the wrong length, not finite,
\* negative, and both
ThresholdLists ==
  {<<Fin(0), Fin(1)>>, <<Fin(0)>>, <<Fin(-1)>>, <<PosInf, Fin(-1)>>,
   <<Fin(-1), PosInf>>, <<NaNf, Fin(0)>>, <<Fin(0), Fin(-1)>>, <<NegInf, Fin(0)>>}

\* spacing specifications: absent, valid, and malformed (three axes for a 2D image)
SpacingSpecs == {NoSpacing, ScalarSpacing(2), SeqSpacing(<<1, 1, 1>>)}

ValidateInput(x) ==
  \E include_background \in BOOLEAN :
    LET n == IF include_background THEN 2 ELSE 3
    IN \E tp \in {"Tensor", "ndarray"}, ty \in {"Tensor", "ndarray"},
          sp \in PredShapes(n), sy \in RefShapes(n),
          ep \in LastElems, ey \in RefLastElems,
          th \in ThresholdLists, spacing \in SpacingSpecs :
         x = Input(Zeros(tp, ep[1], sp, ep[2]), Zeros(ty, ey[1], sy, ey[2]),
                   th, include_background, "euclidean", spacing)

InitValidate ==
  /\ ValidateInput(inp)
  /\ ub \in {"wrap", "saturate"}
  /\ InitComputeIdle
  /\ InitMetricIdle

SpecValidate == InitValidate /\ [][NextCompute]_vars

(* ------------------- properties of compute_surface_dice ----------------- *)
\* what a returned call was given for the pair (b, c): the two masks, the
\* threshold and the spacing, read from the arguments
GivenPred(b, c) == Foreground(Filtered(inp)[1], b, c)
GivenRef(b, c) == Foreground(Filtered(inp)[2], b, c)
GivenSpacing(b) ==
  prepare_spacing(inp.spacing, Filtered(inp)[1].shape[1], 2).list[b]
GivenPairs ==
  (1..Filtered(inp)[1].shape[1]) \X (1..Filtered(inp)[1].shape[2])

\* pred_to_gt and gt_to_pred of the pair
PredToGt(b, c) ==
  get_surface_distance(Edges(GivenPred(b, c)), Edges(GivenRef(b, c)),
                       inp.distance_metric, GivenSpacing(b))
GtToPred(b, c) ==
  get_surface_distance(Edges(GivenRef(b, c)), Edges(GivenPred(b, c)),
                       inp.distance_metric, GivenSpacing(b))

\* the number of distances of an array that are finite and at most tau
AtMost(dist, tau) ==
  Cardinality({p \in DOMAIN dist : dist[p] # PosInf /\ dist[p].v <= tau * tau})

Complete(b, c) == Cardinality(DOMAIN PredToGt(b, c)) + Cardinality(DOMAIN GtToPred(b, c))
Correct(b, c, tau) == AtMost(PredToGt(b, c), tau) + AtMost(GtToPred(b, c), tau)

\* C1: every entry of a returned result is correct / complete when complete > 0
\* and NaN when complete = 0; it is NaN whenever both masks of the pair are all
\* background, and an entry that is not NaN lies in [0, 1].
C1_EntryIsRatioOrNaN ==
  pc = "returned" =>
    \A x \in GivenPairs :
      LET b == x[1]
          c == x[2]
          entry == out.val[b][c]
          tau == inp.class_thresholds[c].v
      IN /\ Complete(b, c) = 0 => entry = NaN
         /\ Complete(b, c) > 0 =>
              /\ entry.k = "num"
              /\ entry.n * Complete(b, c) = Correct(b, c, tau) * entry.d
         /\ (GivenPred(b, c) = {} /\ GivenRef(b, c) = {}) => entry = NaN
         /\ entry # NaN => (0 <= entry.n /\ entry.n <= entry.d /\ entry.d > 0)

\* a returned result with a NaN entry and an entry strictly between 0 and 1
C1_Witness ==
  /\ pc = "returned"
  /\ \E x \in GivenPairs : out.val[x[1]][x[2]] = NaN /\ Complete(x[1], x[2]) = 0
  /\ \E x \in GivenPairs :
       /\ out.val[x[1]][x[2]].k = "num"
       /\ 0 < out.val[x[1]][x[2]].n
       /\ out.val[x[1]][x[2]].n < out.val[x[1]][x[2]].d

\* C2: when exactly one of the two masks of a pair has any foreground, the
\* entry is 0 and not NaN, for every threshold and every metric.
C2_OneSidedIsZero ==
  pc = "returned" =>
    \A x \in GivenPairs :
      ((GivenPred(x[1], x[2]) = {}) # (GivenRef(x[1], x[2]) = {}))
        => out.val[x[1]][x[2]] = [k |-> "num", n |-> 0, d |-> 1]

\* a returned zero for a pair whose prediction is empty and whose reference is
\* not, under a positive threshold
C2_Witness ==
  /\ pc = "returned"
  /\ \E x \in GivenPairs :
       /\ GivenPred(x[1], x[2]) = {}
       /\ GivenRef(x[1], x[2]) # {}
       /\ inp.class_thresholds[x[2]].v > 0
       /\ out.val[x[1]][x[2]] = [k |-> "num", n |-> 0, d |-> 1]

\* C6: when the two masks of a pair are identical and have a boundary pixel,
\* the entry is 1 for every threshold, threshold 0 included.
C6_IdenticalIsOne ==
  pc = "returned" =>
    \A x \in GivenPairs :
      (GivenPred(x[1], x[2]) = GivenRef(x[1], x[2]) /\ Edges(GivenPred(x[1], x[2])) # {})
        => out.val[x[1]][x[2]] = [k |-> "num", n |-> 1, d |-> 1]

\* a returned 1 for identical masks with an interior pixel under threshold 0
C6_Witness ==
  /\ pc = "returned"
  /\ \E x \in GivenPairs :
       /\ GivenPred(x[1], x[2]) = GivenRef(x[1], x[2])
       /\ Edges(GivenPred(x[1], x[2])) # {}
       /\ Edges(GivenPred(x[1], x[2])) # GivenPred(x[1], x[2])
       /\ inp.class_thresholds[x[2]].v = 0
       /\ out.val[x[1]][x[2]] = [k |-> "num", n |-> 1, d |-> 1]

\* the same call with the threshold of class c replaced by t
WithThreshold(c, t) ==
  compute_surface_dice([inp EXCEPT !.class_thresholds[c] = t], ub)

\* C8: an entry is monotone non-decreasing in its class's threshold: raising
\* the threshold of class c keeps NaN entries NaN, keeps the others not NaN and
\* not smaller, and leaves the entries of every other class as they were.
C8_MonotoneInThreshold ==
  pc = "returned" =>
    \A c \in DOMAIN inp.class_thresholds :
      \A t \in Taus :
        t.v >= inp.class_thresholds[c].v =>
          LET other == WithThreshold(c, t)
          IN /\ other.err = "none"
             /\ \A x \in GivenPairs :
                  LET lo == out.val[x[1]][x[2]]
                      hi == other.val[x[1]][x[2]]
                  IN IF x[2] # c THEN hi = lo
                     ELSE /\ (lo = NaN) = (hi = NaN)
                          /\ lo # NaN => RatLeq(lo, hi)

\* a returned result of two classes of which one entry is strictly larger
\* under a larger threshold of its class
C8_Witness ==
  /\ pc = "returned"
  /\ Len(inp.class_thresholds) = 2
  /\ \E c \in 1..2 : \E t \in Taus :
       /\ t.v > inp.class_thresholds[c].v
       /\ out.val[1][c] # NaN
       /\ ~RatLeq(WithThreshold(c, t).val[1][c], out.val[1][c])
       /\ out.val[1][3 - c] # NaN

(* ------------------- properties of the validation ----------------------- *)
AllElems == Elems(Filtered(inp)[1]) \cup Elems(Filtered(inp)[2])

\* the condition of each fatal check, read from the arguments
Violates(name) ==
  LET y_pred == Filtered(inp)[1]
      y == Filtered(inp)[2]
      th == inp.class_thresholds
  IN CASE name = "InvalidInputType" -> y_pred.type # "Tensor" \/ y.type # "Tensor"
       [] name = "InvalidRank" -> Len(y_pred.shape) # 4 \/ Len(y.shape) # 4
       [] name = "ShapeMismatch" -> y_pred.shape # y.shape
       [] name = "NotBinarized" -> ~ByteRoundTrips(y_pred, ub) \/ ~ByteRoundTrips(y, ub)
       [] name = "NotOneHot" -> \E e \in AllElems : e > Whole(1)
       [] name = "ThresholdCountMismatch" -> y_pred.shape[2] # Len(th)
       [] name = "NonFiniteThreshold" -> \E i \in DOMAIN th : th[i].k # "fin"
       [] OTHER -> \E i \in DOMAIN th : th[i] = NegInf \/ (th[i].k = "fin" /\ th[i].v < 0)

ErrorOrder ==
  <<"InvalidInputType", "InvalidRank", "ShapeMismatch", "NotBinarized", "NotOneHot",
    "ThresholdCountMismatch", "NonFiniteThreshold", "NegativeThreshold">>

\* the binarization check is reached: the three checks before it passed
ReachesElementChecks ==
  /\ pc # "start"
  /\ ~Violates("InvalidInputType")
  /\ ~Violates("InvalidRank")
  /\ ~Violates("ShapeMismatch")

\* C7 as claimed: NotBinarized exactly when some element differs from its own
\* truncation to an integer, and otherwise NotOneHot exactly when some element
\* is greater than 1.
C7_AsClaimed ==
  ReachesElementChecks =>
    LET fractional == \E e \in AllElems : ~IsWhole(e)
    IN /\ (out.err = "NotBinarized") = fractional
       /\ ~fractional => ((out.err = "NotOneHot") = (\E e \in AllElems : e > Whole(1)))

\* C7 as amended: NotBinarized exactly when some element is not an integer of
\* 0..255 (it differs from its conversion to an unsigned 8-bit integer), and
\* otherwise NotOneHot exactly when some element is greater than 1.
C7_ByteRoundTrip ==
  ReachesElementChecks =>
    LET notByte == \E e \in AllElems :
                     ~(IsWhole(e) /\ Whole(0) <= e /\ e <= Whole(ByteMod - 1))
    IN /\ (out.err = "NotBinarized") = notByte
       /\ ~notByte => ((out.err = "NotOneHot") = (\E e \in AllElems : e > Whole(1)))

\* NotBinarized for float tensors of integer values of which one is 256 or
\* more, on a build that saturates the conversion
C7_Witness ==
  /\ ReachesElementChecks
  /\ out.err = "NotBinarized"
  /\ ub = "saturate"
  /\ inp.y_pred.dtype = "float32"
  /\ \A e \in AllElems : IsWhole(e) /\ e >= 0
  /\ \E e \in AllElems : e >= Whole(ByteMod)

\* C9: the reported failure is the earliest violated check of the fixed order
\* (the class count being the one after background filtering), a call that
\* violates none is not failed by them, and a failed call has processed no
\* pair: no entry of a result, no diagnostic.
C9_EarliestCheckFailsFirst ==
  pc # "start" =>
    /\ \A i \in DOMAIN ErrorOrder :
         (Violates(ErrorOrder[i]) /\ \A j \in 1..(i - 1) : ~Violates(ErrorOrder[j]))
           => (pc = "failed" /\ out.err = ErrorOrder[i])
    /\ (\A i \in DOMAIN ErrorOrder : ~Violates(ErrorOrder[i]))
         => (pc # "failed" \/ out.err = "InvalidSpacingSpec")
    /\ pc = "failed" =>
         /\ done = 0
         /\ nsd = <<>>
         /\ warnings = <<>>
         /\ out.val = <<>>
         /\ out.warns = <<>>

\* a failure NotBinarized of a call that also violates three later checks,
\* with the background channel filtered out
C9_Witness ==
  /\ pc = "failed"
  /\ out.err = "NotBinarized"
  /\ ~inp.include_background
  /\ Violates("NotOneHot")
  /\ Violates("ThresholdCountMismatch")
  /\ Violates("NegativeThreshold")

(* ------------------- SurfaceDiceMetric ---------------------------------- *)
\* _compute_tensor (lines 78-107): compute_surface_dice with the attributes of
\* the instance and the spacing of the keyword arguments
_compute_tensorNoSpacing(self, y_pred, y, spacing) ==
  compute_surface_dice(
    Input(y_pred, y, self.class_thresholds, self.include_background,
          self.distance_metric, NoSpacing), "wrap")

_compute_tensor(self, y_pred, y, spacing) ==
  compute_surface_dice(
    Input(y_pred, y, self.class_thresholds, self.include_background,
          self.distance_metric, spacing), "wrap")

\* an entry of the buffer: a [B,C] tensor, or something that is not a tensor
TensorEntry(rows) == [tensor |-> TRUE, rows |-> rows]
OtherEntry == [tensor |-> FALSE, rows |-> <<>>]

BufferRows(buf) == Flatten([i \in DOMAIN buf |-> buf[i].rows])

\* get_buffer: the buffered tensors concatenated along the batch axis; a
\* failure when nothing is buffered; not a tensor when an entry is not one
get_buffer(buf) ==
  IF buf = <<>> THEN [err |-> "EmptyBuffer", tensor |-> FALSE, rows |-> <<>>]
  ELSE [err |-> "none",
        tensor |-> \A i \in DOMAIN buf : buf[i].tensor,
        rows |-> BufferRows(buf)]

(* the reduction engine: do_metric_reduction *)
RatAdd(x, y) == Ratio(x.n * y.d + y.n * x.d, x.d * y.d)

RECURSIVE RatSum(_)
RatSum(xs) == IF xs = <<>> THEN Ratio(0, 1) ELSE RatAdd(Head(xs), RatSum(Tail(xs)))

IsNum(x) == x.k = "num"
NotNans(xs) == SelectSeq(xs, IsNum)

\* the sum and the mean of the entries that are not NaN; the mean of none is NaN
NanSum(xs) == RatSum(NotNans(xs))
NanMean(xs) ==
  IF NotNans(xs) = <<>> THEN NaN
  ELSE Ratio(NanSum(xs).n, NanSum(xs).d * Len(NotNans(xs)))

Column(rows, c) == [b \in DOMAIN rows |-> rows[b][c]]

ReductionModes ==
  {"none", "mean", "sum", "mean_batch", "sum_batch", "mean_channel", "sum_channel"}

do_metric_reduction(rows, mode) ==
  LET n_class == Len(rows[1])
  IN CASE mode = "none" ->
            [err |-> "none", f |-> rows,
             not_nans |-> [b \in DOMAIN rows |-> [c \in 1..n_class |->
                             IF IsNum(rows[b][c]) THEN 1 ELSE 0]]]
       [] mode = "mean" ->
            [err |-> "none", f |-> NanMean(Flatten(rows)),
             not_nans |-> Len(NotNans(Flatten(rows)))]
       [] mode = "sum" ->
            [err |-> "none", f |-> NanSum(Flatten(rows)),
             not_nans |-> Len(NotNans(Flatten(rows)))]
       [] mode = "mean_batch" ->
            [err |-> "none", f |-> [c \in 1..n_class |-> NanMean(Column(rows, c))],
             not_nans |-> [c \in 1..n_class |-> Len(NotNans(Column(rows, c)))]]
       [] mode = "sum_batch" ->
            [err |-> "none", f |-> [c \in 1..n_class |-> NanSum(Column(rows, c))],
             not_nans |-> [c \in 1..n_class |-> Len(NotNans(Column(rows, c)))]]
       [] mode = "mean_channel" ->
            [err |-> "none", f |-> [b \in DOMAIN rows |-> NanMean(rows[b])],
             not_nans |-> [b \in DOMAIN rows |-> Len(NotNans(rows[b]))]]
       [] mode = "sum_channel" ->
            [err |-> "none", f |-> [b \in DOMAIN rows |-> NanSum(rows[b])],
             not_nans |-> [b \in DOMAIN rows |-> Len(NotNans(rows[b]))]]
       [] OTHER -> [err |-> "UnknownReductionMode", f |-> <<>>, not_nans |-> <<>>]

\* aggregate (lines 109-130): what it raises or returns for a buffer and a
\* reduction argument ("default" is the argument left out)
Raised(e) == [err |-> e, val |-> <<>>]

aggregateSameError(self, buf, reduction) ==
  LET data == get_buffer(buf)
      r == do_metric_reduction(data.rows,
             IF reduction = "default" THEN self.reduction ELSE reduction)
  IN IF data.err # "none" \/ ~data.tensor THEN Raised("EmptyBuffer")
     ELSE IF r.err # "none" THEN Raised(r.err)
     ELSE [err |-> "none",
           val |-> IF self.get_not_nans THEN <<r.f, r.not_nans>> ELSE r.f]

aggregate(self, buf, reduction) ==
  LET data == get_buffer(buf)
      r == do_metric_reduction(data.rows,
             IF reduction = "default" THEN self.reduction ELSE reduction)
  IN IF data.err # "none" THEN Raised(data.err)
     ELSE IF ~data.tensor THEN Raised("InvalidBufferContents")
     ELSE IF r.err # "none" THEN Raised(r.err)
     ELSE [err |-> "none",
           val |-> IF self.get_not_nans THEN <<r.f, r.not_nans>> ELSE r.f]

(* ------------------- the calls on one metric instance ------------------- *)
Cfg(class_thresholds, include_background, distance_metric, reduction, get_not_nans) ==
  [class_thresholds |-> class_thresholds, include_background |-> include_background,
   distance_metric |-> distance_metric, reduction |-> reduction,
   get_not_nans |-> get_not_nans]

\* __init__ (lines 63-76) stores its arguments unchecked
Configs ==
  {Cfg(<<Fin(0)>>, TRUE, "euclidean", "mean", FALSE),
   Cfg(<<Fin(1), Fin(0)>>, FALSE, "euclidean", "none", TRUE),
   Cfg(<<Fin(1), Fin(1)>>, TRUE, "chessboard", "sum_batch", FALSE),
   Cfg(<<Fin(1)>>, FALSE, "taxicab", "mean_channel", TRUE),
   Cfg(<<Fin(-1)>>, TRUE, "euclidean", "mean", FALSE),
   Cfg(<<Fin(0)>>, TRUE, "euclidean", "median", FALSE)}

\* the masks (predicted, reference) of a 1 x 2 image, by kind: class absent
\* from both, identical, predicted only, reference larger than the prediction
KindMasks(k) ==
  CASE k = 1 -> <<{}, {}>>
    [] k = 2 -> <<{<<1, 1>>}, {<<1, 1>>}>>
    [] k = 3 -> <<{<<1, 1>>}, {}>>
    [] OTHER -> <<{<<1, 1>>}, {<<1, 1>>, <<1, 2>>}>>

\* a batch of samples of the given kinds with n channels: channel c of a
\* sample of kind k holds the masks of kind k + c - 1 (cyclically)
SampleTensors(kinds, n) ==
  LET fg(side) == [b \in DOMAIN kinds |-> [c \in 1..n |->
                     KindMasks(((kinds[b] + c - 2) % 4) + 1)[side]]]
  IN <<MaskTensor(fg(1), 1, 2), MaskTensor(fg(2), 1, 2)>>

Channels(self) ==
  Len(self.class_thresholds) + (IF self.include_background THEN 0 ELSE 1)

Args(y_pred, y, spacing) == [y_pred |-> y_pred, y |-> y, spacing |-> spacing]

\* well-formed tensors for the instance: B samples of the kinds k, k + 1, ...
GoodArgs(self, call) ==
  LET t == SampleTensors([b \in 1..call.B |-> call.k + b - 1], Channels(self))
  IN Args(t[1], t[2], call.spacing)

\* one sample of kind 4 with something wrong
BadArgs(self, what) ==
  LET t == SampleTensors(<<4>>, Channels(self))
      more == SampleTensors(<<4>>, Channels(self) + 1)
      two == SampleTensors(<<4, 4>>, Channels(self))
  IN CASE what = "type" -> Args([t[1] EXCEPT !.type = "ndarray"], t[2], NoSpacing)
       [] what = "shape" -> Args(t[1], two[2], NoSpacing)
       [] what = "value" ->
            Args(t[1], [t[2] EXCEPT !.data = PokeLast(@, 4, Whole(2))], NoSpacing)
       [] OTHER -> Args(more[1], more[2], NoSpacing)

\* the update calls: batch size, kind of the first sample, spacing
GoodCalls ==
  {[B |-> B, k |-> x[1], spacing |-> x[2]] :
     B \in 1..MaxBatch,
     x \in {<<1, NoSpacing>>, <<3, NoSpacing>>, <<3, ScalarSpacing(2)>>,
            <<3, SeqSpacing(<<1, 1, 1>>)>>}}
BadCall == [B |-> 1, k |-> 4, spacing |-> NoSpacing]

InitMetric ==
  /\ cfg \in Configs
  /\ buffer = <<>>
  /\ ret = [op |-> "init", err |-> "none", val |-> <<>>, mode |-> "none",
            cleared |-> 0]
  /\ fed = <<>>
  /\ inp = Input(NoTensor, NoTensor, <<>>, FALSE, "euclidean", NoSpacing)
  /\ ub = "wrap"
  /\ pc = "idle"
  /\ t_pred = NoTensor
  /\ t_ref = NoTensor
  /\ spacing_list = <<>>
  /\ nsd = <<>>
  /\ done = 0
  /\ warnings = <<>>
  /\ out = Failure("pending")

\* the record of a call: what it raised or returned and, for the call that
\* follows a reset, the number of rows that reset cleared
Called(op, r, mode) ==
  [op |-> op, err |-> r.err, val |-> r.val, mode |-> mode,
   cleared |-> IF ret.op = "reset" THEN ret.val ELSE 0]

\* update: the compute step, then the append; a failure of the compute step
\* propagates before anything is appended
Update(a, call) ==
  /\ Len(buffer) < MaxEntries
  /\ Len(BufferRows(buffer)) + call.B <= MaxRows
  /\ \E r \in {_compute_tensor(cfg, a.y_pred, a.y, a.spacing)} :
     \E real \in {ComputeError(
                   Input(a.y_pred, a.y, cfg.class_thresholds, cfg.include_background,
                         cfg.distance_metric, a.spacing), "wrap")} :
        /\ buffer' = IF r.err = "none" THEN Append(buffer, TensorEntry(r.val))
                     ELSE buffer
        /\ ret' = Called("update", r, "none")
        /\ fed' = IF real = "none" THEN Append(fed, call) ELSE fed
  /\ UNCHANGED cfg
  /\ UNCHANGED computeVars

UpdateCall ==
  \/ \E call \in GoodCalls : \E a \in {GoodArgs(cfg, call)} : Update(a, call)
  \/ \E what \in {"type", "shape", "value", "channels"} :
       \E a \in {BadArgs(cfg, what)} : Update(a, BadCall)

\* extend (inherited): appends what it is given, here something that is not a tensor
ExtendOther ==
  /\ Len(buffer) < MaxEntries
  /\ \A i \in DOMAIN buffer : buffer[i].tensor
  /\ buffer' = Append(buffer, OtherEntry)
  /\ ret' = Called("extend", [err |-> "none", val |-> <<>>], "none")
  /\ UNCHANGED <<cfg, fed>>
  /\ UNCHANGED computeVars

\* aggregate, with a reduction argument or without
AggregateStoresArgument(reduction) ==
  /\ ret' = Called("aggregate", aggregate(cfg, buffer, reduction), reduction)
  /\ cfg' = IF reduction = "default" THEN cfg ELSE [cfg EXCEPT !.reduction = reduction]
  /\ UNCHANGED <<buffer, fed>>
  /\ UNCHANGED computeVars

Aggregate(reduction) ==
  /\ ret' = Called("aggregate", aggregate(cfg, buffer, reduction), reduction)
  /\ UNCHANGED <<cfg, buffer, fed>>
  /\ UNCHANGED computeVars

AggregateCall ==
  \E reduction \in ReductionModes \cup {"default", "median"} : Aggregate(reduction)

\* reset: clears the buffer
Reset ==
  /\ buffer' = <<>>
  /\ fed' = <<>>
  /\ ret' = Called("reset", [err |-> "none", val |-> Len(BufferRows(buffer))], "none")
  /\ UNCHANGED cfg
  /\ UNCHANGED computeVars

Next == UpdateCall \/ ExtendOther \/ AggregateCall \/ Reset

Spec == InitMetric /\ [][Next]_vars

(* ------------------- the claims about the metric instance --------------- *)
IsTensor(e) == e.tensor

\* the call fed[i] as compute_surface_dice receives it from this instance
FedInput(i) ==
  Input(GoodArgs(cfg, fed[i]).y_pred, GoodArgs(cfg, fed[i]).y, cfg.class_thresholds,
        cfg.include_background, cfg.distance_metric, fed[i].spacing)

FedResult(i) == compute_surface_dice(FedInput(i), "wrap").val

\* two tensors concatenated along the batch axis
Cat(t1, t2) ==
  [t1 EXCEPT !.shape = [@ EXCEPT ![1] = t1.shape[1] + t2.shape[1]],
             !.data = t1.data \o t2.data]

\* the spacing of every item of the call fed[i], as the resolver expands it
FedSpacings(i) ==
  prepare_spacing(fed[i].spacing, fed[i].B, 2).list

\* the rows an aggregate call returned
ReturnedRows == IF cfg.get_not_nans THEN ret.val[1] ELSE ret.val

\* C3: an update whose compute step fails (a validation failure or a failure
\* of the spacing resolver) leaves the buffer as it was, so the buffer always
\* holds exactly the results of the updates whose compute step succeeded, in
\* call order, and a failed update changes neither the buffer nor whether it
\* is empty
C3_FailedUpdateLeavesBuffer ==
  /\ [](SelectSeq(buffer, IsTensor)
          = [i \in DOMAIN fed |-> TensorEntry(FedResult(i))])
  /\ [][(ret'.op = "update" /\ ret'.err # "none") => buffer' = buffer]_vars

\* a failed update (the spacing resolver rejected the spacing) after two
\* successful ones
C3_Witness ==
  /\ ret.op = "update"
  /\ ret.err = "InvalidSpacingSpec"
  /\ Len(fed) = 2
  /\ Len(buffer) = 2

C5_TwoUpdatesAreOneCompute ==
  (ret.op = "aggregate" /\ ret.mode = "none" /\ Len(fed) = 2 /\ Len(buffer) = 2) =>
    /\ ret.err = "none"
    /\ Len(ReturnedRows) = fed[1].B + fed[2].B
    /\ \A b \in DOMAIN ReturnedRows : Len(ReturnedRows[b]) = Len(cfg.class_thresholds)
    /\ ReturnedRows = FedResult(1) \o FedResult(2)
    /\ ReturnedRows =
         compute_surface_dice(
           Input(Cat(FedInput(1).y_pred, FedInput(2).y_pred),
                 Cat(FedInput(1).y, FedInput(2).y),
                 cfg.class_thresholds, cfg.include_background, cfg.distance_metric,
                 SeqSeqSpacing(FedSpacings(1) \o FedSpacings(2))), "wrap").val

\* batches of sizes 1 and 2 with different spacings and two classes, on an
\* instance whose configured reduction is not "none"
C5_Witness ==
  /\ ret.op = "aggregate"
  /\ ret.mode = "none"
  /\ ret.err = "none"
  /\ Len(fed) = 2
  /\ fed[1].B = 1
  /\ fed[2].B = 2
  /\ fed[1].spacing # fed[2].spacing
  /\ Len(cfg.class_thresholds) = 2
  /\ cfg.reduction # "none"

\* C10: an aggregate call, failed or not and whatever its reduction argument,
\* leaves the buffer and the configured reduction as they were; two aggregate
\* calls in a row with the same mode return the same; an update after an
\* aggregate appends its result to the contents the aggregate saw
C10_AggregateChangesNothing ==
  /\ [][ret'.op = "aggregate" => (buffer' = buffer /\ cfg' = cfg)]_vars
  /\ [][(ret.op = "aggregate" /\ ret'.op = "aggregate" /\ ret'.mode = ret.mode) =>
          (ret'.err = ret.err /\ ret'.val = ret.val)]_vars
  /\ [][(ret.op = "aggregate" /\ ret'.op = "update" /\ ret'.err = "none") =>
          buffer' = Append(buffer, TensorEntry(ret'.val))]_vars

\* a successful aggregate of two buffered results with a reduction argument
\* that is not the configured reduction
C10_Witness ==
  /\ ret.op = "aggregate"
  /\ ret.err = "none"
  /\ ret.mode \notin {"default", cfg.reduction}
  /\ Len(buffer) = 2
  /\ Len(BufferRows(buffer)) = MaxRows

====
